---- MODULE Spec2Model ----
(***************************************************************************)
(* A model of the Swift syntax tree of src/src/syntax.rs.                   *)
(*                                                                         *)
(* The source is a data model: four closed unions (Expression, Statement,  *)
(* SwiftType, Declaration) and the structs they hold.  It defines no       *)
(* function of its own; what it offers is what Rust gives a type with      *)
(* these definitions: building a value with a struct or variant literal,   *)
(* reading and assigning its pub fields, moving it, dropping it, and the   *)
(* derived Clone.                                                          *)
(*                                                                         *)
(* Part 1 is the type definitions, one definition per Rust type.           *)
(* Part 2 (Spec) is the construction and traversal surface: a producer or  *)
(* consumer stands at a type and steps into one field of one variant.      *)
(* Part 3 (SpecOwn) is the ownership of built Expression trees: a heap of  *)
(* nodes, owned by bindings, built, moved, cloned, assigned and dropped.   *)
(* Part 4 (SpecMembers) is the filling of the member sequences of a struct *)
(* or class declaration, one push per member.                              *)
(* Part 5 (SpecLit) is the writing and reading of one struct or variant    *)
(* literal by code inside or outside the module that defines the types.    *)
(***************************************************************************)
EXTENDS Naturals, Sequences, FiniteSets, TLC

VARIABLES root, spine, heap, owned, last, source, taken, decl, site, lit, seen

varsT == <<root, spine>>
varsO == <<heap, owned, last>>
varsM == <<source, taken, decl>>
varsL == <<site, lit, seen>>
vars == <<root, spine, heap, owned, last, source, taken, decl, site, lit, seen>>

(***************************************************************************)
(* Part 1.  The type definitions.                                          *)
(*                                                                         *)
(* A type is a sequence of variants; a struct has the single variant       *)
(* "struct".  A variant has a name and a sequence of fields.  A field has  *)
(* a name (its position for a tuple field), its visibility, the wrappers   *)
(* around the type it holds, outermost first (Option, Box, Vec, Tuple),    *)
(* and the name of that type.                                              *)
(***************************************************************************)
Fld(n, w, t) == [name |-> n, pub |-> TRUE, wrap |-> w, target |-> t]

PrivFld(n, w, t) == [name |-> n, pub |-> FALSE, wrap |-> w, target |-> t]

Variant(n, fs) == [name |-> n, fields |-> fs]

Struct(fs) == <<Variant("struct", fs)>>

Unit(n) == Variant(n, <<>>)

\* the types of the language and the standard library that hold no node
Primitive == {"String", "i64", "f64", "bool", "char"}

Expression ==
  << Unit("SelfExpression"),
     Unit("SuperExpression"),
     Variant("Identifier", <<Fld("0", <<>>, "Identifier")>>),
     Variant("Literal", <<Fld("0", <<>>, "Literal")>>),
     Variant("BinaryExpression", <<Fld("0", <<"Box">>, "BinaryExpression")>>),
     Variant("UnaryExpression", <<Fld("0", <<"Box">>, "UnaryExpression")>>),
     Variant("CallExpression", <<Fld("0", <<"Box">>, "CallExpression")>>),
     Variant("Closure", <<Fld("0", <<"Box">>, "Closure")>>),
     Variant("Subscript", <<Fld("0", <<"Box">>, "SubscriptExpression")>>),
     Variant("Conditional", <<Fld("0", <<"Box">>, "InlineConditionalExpression")>>),
     Variant("Tuple", <<Fld("0", <<"Box">>, "TupleExpression")>>),
     Variant("Array", <<Fld("0", <<"Box">>, "ArrayExpression")>>),
     Variant("Dictionary", <<Fld("0", <<"Box">>, "DictionaryExpression")>>),
     Variant("MemberAccess", <<Fld("0", <<"Box">>, "MemberAccessExpression")>>),
     Variant("TypeCasting", <<Fld("0", <<"Box">>, "TypeCastingExpression")>>),
     Variant("PatternMatch", <<Fld("0", <<"Box">>, "PatternMatchExpression")>>),
     Variant("KeyPath", <<Fld("0", <<>>, "KeyPathExpression")>>),
     Variant("Assignment", <<Fld("0", <<"Box">>, "AssignmentExpression")>>) >>

Identifier == Struct(<<Fld("name", <<>>, "String")>>)

InfixIdentifier == Struct(<<Fld("symbol", <<>>, "String")>>)

UnaryIdentifier == Struct(<<Fld("symbol", <<>>, "String")>>)

Literal ==
  << Variant("Integer", <<Fld("0", <<>>, "i64")>>),
     Variant("Float", <<Fld("0", <<>>, "f64")>>),
     Variant("Bool", <<Fld("0", <<>>, "bool")>>),
     Variant("String", <<Fld("0", <<>>, "String")>>),
     Variant("Character", <<Fld("0", <<>>, "char")>>),
     Unit("Nil") >>

BinaryExpression ==
  Struct(<< Fld("left", <<"Box">>, "Expression"),
            Fld("operator", <<>>, "InfixIdentifier"),
            Fld("right", <<"Box">>, "Expression") >>)

UnaryExpression ==
  Struct(<< Fld("operator", <<>>, "UnaryIdentifier"),
            Fld("operand", <<"Box">>, "Expression") >>)

CallExpression ==
  Struct(<< Fld("callee", <<"Box">>, "Expression"),
            Fld("arguments", <<"Vec">>, "Argument"),
            Fld("generic_type_arguments", <<"Option", "Vec">>, "SwiftType"),
            Fld("trailing_closures", <<"Vec">>, "TrailingClosure") >>)

\* a slip: the trailing closure keeps its statements itself
TrailingClosureHoldingBody ==
  Struct(<< Fld("label", <<"Option">>, "String"),
            Fld("closure", <<"Vec">>, "Statement") >>)

\* a slip: the trailing closure is typed as a Closure
TrailingClosureOfClosure ==
  Struct(<< Fld("label", <<"Option">>, "String"),
            Fld("closure", <<>>, "Closure") >>)

TrailingClosure ==
  Struct(<< Fld("label", <<"Option">>, "String"),
            Fld("closure", <<>>, "Expression") >>)

Argument ==
  Struct(<< Fld("label", <<"Option">>, "String"),
            Fld("value", <<>>, "Expression"),
            Fld("is_variadic", <<>>, "bool"),
            Fld("is_inout", <<>>, "bool") >>)

Closure ==
  Struct(<< Fld("parameters", <<"Vec">>, "ClosureParameter"),
            Fld("return_type", <<"Option", "Box">>, "SwiftType"),
            Fld("is_escaping", <<>>, "bool"),
            Fld("body", <<"Vec">>, "Statement") >>)

ClosureParameter ==
  Struct(<< Fld("name", <<>>, "String"),
            Fld("type_annotation", <<"Option">>, "SwiftType") >>)

AssignmentExpression ==
  Struct(<< Fld("target", <<"Box">>, "Expression"),
            Fld("value", <<"Box">>, "Expression") >>)

SubscriptExpression ==
  Struct(<< Fld("target", <<"Box">>, "Expression"),
            Fld("index", <<"Box">>, "Expression") >>)

InlineConditionalExpression ==
  Struct(<< Fld("condition", <<"Box">>, "Expression"),
            Fld("true_expression", <<"Box">>, "Expression"),
            Fld("false_expression", <<"Box">>, "Expression") >>)

TupleExpression == Struct(<<Fld("elements", <<"Vec">>, "Expression")>>)

ArrayExpression == Struct(<<Fld("elements", <<"Vec">>, "Expression")>>)

DictionaryExpression ==
  Struct(<< Fld("elements.0", <<"Vec", "Tuple">>, "Expression"),
            Fld("elements.1", <<"Vec", "Tuple">>, "Expression") >>)

MemberAccessExpression ==
  Struct(<< Fld("target", <<"Box">>, "Expression"),
            Fld("member", <<>>, "String") >>)

TypeCastingExpression ==
  Struct(<< Fld("expression", <<"Box">>, "Expression"),
            Fld("target_type", <<>>, "SwiftType") >>)

\* a slip: the pattern of a match is a Pattern of module statement
PatternMatchExpressionOnPattern ==
  Struct(<< Fld("pattern", <<"Box">>, "Pattern"),
            Fld("expression", <<"Box">>, "Expression") >>)

PatternMatchExpression ==
  Struct(<< Fld("pattern", <<"Box">>, "Expression"),
            Fld("expression", <<"Box">>, "Expression") >>)

KeyPathExpression ==
  Struct(<< Fld("type_name", <<"Option">>, "String"),
            Fld("path", <<"Vec">>, "String") >>)

Statement ==
  << Variant("Break", <<Fld("0", <<>>, "BreakStatement")>>),
     Variant("Continue", <<Fld("0", <<>>, "ContinueStatement")>>),
     Variant("Expression", <<Fld("0", <<"Box">>, "Expression")>>),
     Variant("Declaration", <<Fld("0", <<"Box">>, "Declaration")>>),
     Variant("Return", <<Fld("0", <<"Box">>, "ReturnStatement")>>),
     Variant("If", <<Fld("0", <<"Box">>, "IfStatement")>>),
     Variant("ForLoop", <<Fld("0", <<"Box">>, "ForLoopStatement")>>),
     Variant("WhileLoop", <<Fld("0", <<"Box">>, "WhileLoopStatement")>>),
     Variant("RepeatWhileLoop", <<Fld("0", <<"Box">>, "RepeatWhileLoopStatement")>>),
     Variant("Switch", <<Fld("0", <<"Box">>, "SwitchStatement")>>),
     Variant("Guard", <<Fld("0", <<"Box">>, "GuardStatement")>>),
     Variant("Throw", <<Fld("0", <<"Box">>, "ThrowStatement")>>),
     Variant("DoCatch", <<Fld("0", <<"Box">>, "DoCatchStatement")>>),
     Variant("Assignment", <<Fld("0", <<>>, "AssignmentStatement")>>) >>

StatementSequence == Struct(<<PrivFld("0", <<"Vec">>, "Statement")>>)

BreakStatement == Struct(<<Fld("label", <<"Option">>, "String")>>)

ContinueStatement == Struct(<<Fld("label", <<"Option">>, "String")>>)

ReturnStatement == Struct(<<Fld("expression", <<"Option", "Box">>, "Expression")>>)

\* a slip: the else arm kept as a plain statement list, as catch_body is
IfStatementPlainElse ==
  Struct(<< Fld("condition", <<"Box">>, "Expression"),
            Fld("body", <<>>, "StatementSequence"),
            Fld("else_body", <<"Option", "Vec">>, "Statement") >>)

IfStatement ==
  Struct(<< Fld("condition", <<"Box">>, "Expression"),
            Fld("body", <<>>, "StatementSequence"),
            Fld("else_body", <<"Option">>, "StatementSequence") >>)

ForLoopStatement ==
  Struct(<< Fld("variable", <<>>, "String"),
            Fld("range.0", <<"Tuple", "Box">>, "Expression"),
            Fld("range.1", <<"Tuple", "Box">>, "Expression"),
            Fld("body", <<>>, "StatementSequence") >>)

WhileLoopStatement ==
  Struct(<< Fld("condition", <<"Box">>, "Expression"),
            Fld("body", <<>>, "StatementSequence") >>)

RepeatWhileLoopStatement ==
  Struct(<< Fld("body", <<>>, "StatementSequence"),
            Fld("condition", <<"Box">>, "Expression") >>)

SwitchStatement ==
  Struct(<< Fld("expression", <<"Box">>, "Expression"),
            Fld("cases", <<"Vec">>, "Case"),
            Fld("default_case", <<"Option">>, "StatementSequence") >>)

Case ==
  Struct(<< Fld("patterns", <<"Vec">>, "Pattern"),
            Fld("guard_expression", <<"Option", "Box">>, "Expression"),
            Fld("body", <<>>, "StatementSequence") >>)

Pattern ==
  << Variant("Literal", <<Fld("0", <<>>, "LiteralPattern")>>),
     Variant("Identifier", <<Fld("0", <<>>, "Identifier")>>),
     Variant("Tuple", <<Fld("0", <<>>, "TuplePattern")>>),
     Variant("EnumCase", <<Fld("0", <<>>, "EnumCasePattern")>>),
     Unit("Wildcard"),
     Variant("TypePattern", <<Fld("0", <<>>, "TypePattern")>>) >>

TypePattern == Struct(<<Fld("ty", <<>>, "SwiftType")>>)

LiteralPattern == Struct(<<Fld("value", <<>>, "Literal")>>)

TuplePattern == Struct(<<Fld("elements", <<"Vec">>, "Pattern")>>)

EnumCasePattern ==
  Struct(<< Fld("enum_name", <<"Option">>, "String"),
            Fld("case_name", <<>>, "String"),
            Fld("associated_values", <<"Vec">>, "Pattern") >>)

GuardStatement ==
  Struct(<< Fld("condition", <<"Box">>, "Expression"),
            Fld("body", <<>>, "StatementSequence") >>)

ThrowStatement == Struct(<<Fld("expression", <<"Box">>, "Expression")>>)

DoCatchStatement ==
  Struct(<< Fld("body", <<>>, "StatementSequence"),
            Fld("catch_body", <<"Vec">>, "Statement") >>)

AssignmentStatement ==
  Struct(<< Fld("target", <<"Box">>, "Expression"),
            Fld("value", <<"Box">>, "Expression") >>)

\* a slip: the Optional variant holds its type inline
SwiftTypeInlineOptional ==
  << Unit("Integer"),
     Unit("Float"),
     Unit("Bool"),
     Unit("String"),
     Unit("Character"),
     Variant("Optional", <<Fld("0", <<>>, "SwiftType")>>),
     Variant("Array", <<Fld("0", <<"Box">>, "SwiftType")>>),
     Variant("Dictionary", << Fld("0", <<"Box">>, "SwiftType"),
                              Fld("1", <<"Box">>, "SwiftType") >>),
     Variant("Tuple", <<Fld("0", <<"Vec">>, "SwiftType")>>),
     Variant("Function", << Fld("0", <<"Vec">>, "SwiftType"),
                            Fld("1", <<"Box">>, "SwiftType") >>),
     Variant("Custom", <<Fld("0", <<>>, "String")>>) >>

SwiftType ==
  << Unit("Integer"),
     Unit("Float"),
     Unit("Bool"),
     Unit("String"),
     Unit("Character"),
     Variant("Optional", <<Fld("0", <<"Box">>, "SwiftType")>>),
     Variant("Array", <<Fld("0", <<"Box">>, "SwiftType")>>),
     Variant("Dictionary", << Fld("0", <<"Box">>, "SwiftType"),
                              Fld("1", <<"Box">>, "SwiftType") >>),
     Variant("Tuple", <<Fld("0", <<"Vec">>, "SwiftType")>>),
     Variant("Function", << Fld("0", <<"Vec">>, "SwiftType"),
                            Fld("1", <<"Box">>, "SwiftType") >>),
     Variant("Custom", <<Fld("0", <<>>, "String")>>) >>

Declaration ==
  << Variant("Function", <<Fld("0", <<"Box">>, "FunDeclaration")>>),
     Variant("Var", <<Fld("0", <<"Box">>, "VarDeclaration")>>),
     Variant("Let", <<Fld("0", <<"Box">>, "LetDeclaration")>>),
     Variant("Struct", <<Fld("0", <<"Box">>, "StructDeclaration")>>),
     Variant("Enum", <<Fld("0", <<"Box">>, "EnumDeclaration")>>),
     Variant("Class", <<Fld("0", <<"Box">>, "ClassDeclaration")>>),
     Variant("Protocol", <<Fld("0", <<"Box">>, "ProtocolDeclaration")>>),
     Variant("Extension", <<Fld("0", <<"Box">>, "ExtensionDeclaration")>>),
     Variant("TypeAlias", <<Fld("0", <<"Box">>, "TypeAliasDeclaration")>>),
     Variant("Import", <<Fld("0", <<"Box">>, "ImportDeclaration")>>),
     Variant("Initializer", <<Fld("0", <<"Box">>, "InitializerDeclaration")>>),
     Variant("Deinitializer", <<Fld("0", <<"Box">>, "DeinitializerDeclaration")>>) >>

FunDeclaration ==
  Struct(<< Fld("name", <<>>, "String"),
            Fld("generics", <<"Option">>, "GenericsDeclaration"),
            Fld("parameters", <<"Vec">>, "FunctionParameter"),
            Fld("return_type", <<"Option">>, "SwiftType"),
            Fld("is_throwing", <<>>, "bool"),
            Fld("access_control", <<>>, "AccessControl"),
            Fld("body", <<"Option">>, "StatementSequence") >>)

GenericsDeclaration == Struct(<<Fld("type_parameters", <<"Vec">>, "TypeParameter")>>)

TypeParameter ==
  Struct(<< Fld("name", <<>>, "String"),
            Fld("constraint", <<"Option">>, "SwiftType") >>)

FunctionParameter ==
  Struct(<< Fld("label", <<"Option">>, "String"),
            Fld("internal_name", <<>>, "String"),
            Fld("ty", <<>>, "SwiftType"),
            Fld("default_value", <<"Option">>, "String"),
            Fld("is_variadic", <<>>, "bool"),
            Fld("is_inout", <<>>, "bool") >>)

StructDeclaration ==
  Struct(<< Fld("name", <<>>, "String"),
            Fld("generics", <<"Option">>, "GenericsDeclaration"),
            Fld("conformances", <<"Vec">>, "String"),
            Fld("properties", <<"Vec">>, "VariablePropertyDeclaration"),
            Fld("methods", <<"Vec">>, "FunDeclaration"),
            Fld("initializers", <<"Vec">>, "InitializerDeclaration") >>)

EnumDeclaration ==
  Struct(<< Fld("name", <<>>, "String"),
            Fld("generics", <<"Option">>, "GenericsDeclaration"),
            Fld("cases", <<"Vec">>, "EnumCase"),
            Fld("raw_type", <<"Option">>, "SwiftType") >>)

\* a slip: a case holds associated values or a raw value, never both
EnumCaseExclusive ==
  << Variant("associated",
       << Fld("name", <<>>, "String"),
          Fld("associated_values", <<"Vec">>, "EnumAssociatedValue") >>),
     Variant("raw",
       << Fld("name", <<>>, "String"),
          Fld("raw_value", <<"Option">>, "Expression") >>) >>

EnumCase ==
  Struct(<< Fld("name", <<>>, "String"),
            Fld("associated_values", <<"Vec">>, "EnumAssociatedValue"),
            Fld("raw_value", <<"Option">>, "Expression") >>)

EnumAssociatedValue ==
  Struct(<< Fld("label", <<"Option">>, "String"),
            Fld("ty", <<>>, "SwiftType") >>)

ClassDeclaration ==
  Struct(<< Fld("name", <<>>, "String"),
            Fld("generics", <<"Option">>, "GenericsDeclaration"),
            Fld("superclass", <<"Option">>, "String"),
            Fld("conformances", <<"Vec">>, "String"),
            Fld("properties", <<"Vec">>, "VariablePropertyDeclaration"),
            Fld("methods", <<"Vec">>, "FunDeclaration"),
            Fld("initializers", <<"Vec">>, "InitializerDeclaration"),
            Fld("deinitializer", <<"Option">>, "DeinitializerDeclaration") >>)

ProtocolDeclaration ==
  Struct(<< Fld("name", <<>>, "String"),
            Fld("inherited_protocols", <<"Vec">>, "String"),
            Fld("property_requirements", <<"Vec">>, "PropertyRequirement"),
            Fld("method_requirements", <<"Vec">>, "MethodRequirement"),
            Fld("initializer_requirements", <<"Vec">>, "InitializerRequirement") >>)

PropertyRequirement ==
  Struct(<< Fld("name", <<>>, "String"),
            Fld("ty", <<>>, "SwiftType"),
            Fld("is_read_only", <<>>, "bool") >>)

\* a slip: the requirement given the optional body of FunDeclaration
MethodRequirementWithBody ==
  Struct(<< Fld("name", <<>>, "String"),
            Fld("parameters", <<"Vec">>, "FunctionParameter"),
            Fld("return_type", <<"Option">>, "SwiftType"),
            Fld("is_mutating", <<>>, "bool"),
            Fld("body", <<"Option">>, "StatementSequence") >>)

MethodRequirement ==
  Struct(<< Fld("name", <<>>, "String"),
            Fld("parameters", <<"Vec">>, "FunctionParameter"),
            Fld("return_type", <<"Option">>, "SwiftType"),
            Fld("is_mutating", <<>>, "bool") >>)

InitializerRequirement == Struct(<<Fld("parameters", <<"Vec">>, "FunctionParameter")>>)

ExtensionDeclaration ==
  Struct(<< Fld("type_name", <<>>, "String"),
            Fld("conformances", <<"Vec">>, "String"),
            Fld("properties", <<"Vec">>, "VarDeclaration"),
            Fld("methods", <<"Vec">>, "FunDeclaration"),
            Fld("initializers", <<"Vec">>, "InitializerDeclaration") >>)

TypeAliasDeclaration ==
  Struct(<< Fld("name", <<>>, "String"),
            Fld("target", <<>>, "SwiftType") >>)

\* a slip: the entire-module variant may carry a name too
ImportSymbolNamedModule ==
  << Variant("EntireModule", <<Fld("0", <<"Option">>, "String")>>),
     Variant("Class", <<Fld("0", <<>>, "String")>>),
     Variant("Struct", <<Fld("0", <<>>, "String")>>),
     Variant("Enum", <<Fld("0", <<>>, "String")>>),
     Variant("Protocol", <<Fld("0", <<>>, "String")>>),
     Variant("Function", <<Fld("0", <<>>, "String")>>),
     Variant("Variable", <<Fld("0", <<>>, "String")>>) >>

ImportSymbol ==
  << Unit("EntireModule"),
     Variant("Class", <<Fld("0", <<>>, "String")>>),
     Variant("Struct", <<Fld("0", <<>>, "String")>>),
     Variant("Enum", <<Fld("0", <<>>, "String")>>),
     Variant("Protocol", <<Fld("0", <<>>, "String")>>),
     Variant("Function", <<Fld("0", <<>>, "String")>>),
     Variant("Variable", <<Fld("0", <<>>, "String")>>) >>

ImportDeclaration ==
  Struct(<< Fld("module", <<>>, "String"),
            Fld("symbol", <<>>, "ImportSymbol") >>)

LetDeclaration ==
  Struct(<< Fld("name", <<>>, "String"),
            Fld("ty", <<"Option">>, "SwiftType"),
            Fld("initial_value", <<"Option">>, "Expression") >>)

VarDeclaration ==
  Struct(<< Fld("name", <<>>, "String"),
            Fld("ty", <<"Option">>, "SwiftType"),
            Fld("initial_value", <<"Option">>, "Expression") >>)

VariablePropertyDeclaration ==
  Struct(<< Fld("name", <<>>, "String"),
            Fld("ty", <<>>, "SwiftType"),
            Fld("getter", <<>>, "FunDeclaration"),
            Fld("setter", <<"Option">>, "FunDeclaration") >>)

\* a slip: the initializer given the optional body of FunDeclaration
InitializerDeclarationOptionalBody ==
  Struct(<< Fld("generics", <<"Option">>, "GenericsDeclaration"),
            Fld("parameters", <<"Vec">>, "FunctionParameter"),
            Fld("body", <<"Option">>, "StatementSequence"),
            Fld("is_failable", <<>>, "bool"),
            Fld("is_convenience", <<>>, "bool"),
            Fld("access_control", <<>>, "AccessControl") >>)

InitializerDeclaration ==
  Struct(<< Fld("generics", <<"Option">>, "GenericsDeclaration"),
            Fld("parameters", <<"Vec">>, "FunctionParameter"),
            Fld("body", <<>>, "StatementSequence"),
            Fld("is_failable", <<>>, "bool"),
            Fld("is_convenience", <<>>, "bool"),
            Fld("access_control", <<>>, "AccessControl") >>)

DeinitializerDeclaration == Struct(<<Fld("body", <<>>, "StatementSequence")>>)

AccessControl ==
  << Unit("Public"), Unit("Internal"), Unit("FilePrivate"), Unit("Private") >>

\* the definition of a type by its name
TypeDef ==
  [ Expression |-> Expression, Identifier |-> Identifier,
    InfixIdentifier |-> InfixIdentifier, UnaryIdentifier |-> UnaryIdentifier,
    Literal |-> Literal, BinaryExpression |-> BinaryExpression,
    UnaryExpression |-> UnaryExpression, CallExpression |-> CallExpression,
    TrailingClosure |-> TrailingClosure, Argument |-> Argument,
    Closure |-> Closure, ClosureParameter |-> ClosureParameter,
    AssignmentExpression |-> AssignmentExpression,
    SubscriptExpression |-> SubscriptExpression,
    InlineConditionalExpression |-> InlineConditionalExpression,
    TupleExpression |-> TupleExpression, ArrayExpression |-> ArrayExpression,
    DictionaryExpression |-> DictionaryExpression,
    MemberAccessExpression |-> MemberAccessExpression,
    TypeCastingExpression |-> TypeCastingExpression,
    PatternMatchExpression |-> PatternMatchExpression,
    KeyPathExpression |-> KeyPathExpression,
    Statement |-> Statement, StatementSequence |-> StatementSequence,
    BreakStatement |-> BreakStatement, ContinueStatement |-> ContinueStatement,
    ReturnStatement |-> ReturnStatement, IfStatement |-> IfStatement,
    ForLoopStatement |-> ForLoopStatement, WhileLoopStatement |-> WhileLoopStatement,
    RepeatWhileLoopStatement |-> RepeatWhileLoopStatement,
    SwitchStatement |-> SwitchStatement, Case |-> Case, Pattern |-> Pattern,
    TypePattern |-> TypePattern, LiteralPattern |-> LiteralPattern,
    TuplePattern |-> TuplePattern, EnumCasePattern |-> EnumCasePattern,
    GuardStatement |-> GuardStatement, ThrowStatement |-> ThrowStatement,
    DoCatchStatement |-> DoCatchStatement, AssignmentStatement |-> AssignmentStatement,
    SwiftType |-> SwiftType, Declaration |-> Declaration,
    FunDeclaration |-> FunDeclaration, GenericsDeclaration |-> GenericsDeclaration,
    TypeParameter |-> TypeParameter, FunctionParameter |-> FunctionParameter,
    StructDeclaration |-> StructDeclaration, EnumDeclaration |-> EnumDeclaration,
    EnumCase |-> EnumCase, EnumAssociatedValue |-> EnumAssociatedValue,
    ClassDeclaration |-> ClassDeclaration, ProtocolDeclaration |-> ProtocolDeclaration,
    PropertyRequirement |-> PropertyRequirement, MethodRequirement |-> MethodRequirement,
    InitializerRequirement |-> InitializerRequirement,
    ExtensionDeclaration |-> ExtensionDeclaration,
    TypeAliasDeclaration |-> TypeAliasDeclaration,
    ImportSymbol |-> ImportSymbol, ImportDeclaration |-> ImportDeclaration,
    LetDeclaration |-> LetDeclaration, VarDeclaration |-> VarDeclaration,
    VariablePropertyDeclaration |-> VariablePropertyDeclaration,
    InitializerDeclaration |-> InitializerDeclaration,
    DeinitializerDeclaration |-> DeinitializerDeclaration,
    AccessControl |-> AccessControl ]

\* the node types: every type the source defines
NodeTypes == DOMAIN TypeDef

(***************************************************************************)
(* Part 2.  The construction and traversal surface.                        *)
(*                                                                         *)
(* A producer writes a value of type root as a literal, a consumer reads   *)
(* one by case dispatch; either stands at a type and steps into one field  *)
(* of one of its variants.  spine is the steps taken from the root.  At a  *)
(* field the value met is None (an Option field), an empty Vec, or a value *)
(* of the field's type; at a variant without fields there is nothing to    *)
(* step into.  Every type has a value, so a spine is a path inside some    *)
(* value of type root, and every path inside a value is a spine.           *)
(***************************************************************************)
MaxSpine == 5

\* what a field of this type can hold: its wrappers decide
Fills(f) ==
  (IF \E i \in DOMAIN f.wrap : f.wrap[i] = "Option" THEN {"None"} ELSE {})
    \cup (IF \E i \in DOMAIN f.wrap : f.wrap[i] = "Vec" THEN {"Empty"} ELSE {})
    \cup {"Value"}

Variants(t) == IF t \in NodeTypes THEN TypeDef[t] ELSE <<>>

\* the type the spine stands at, "" when it stands at no value
Here ==
  IF spine = <<>> THEN root
  ELSE IF spine[Len(spine)].fill = "Value" THEN spine[Len(spine)].target
  ELSE ""

StepInto(t, v, f, fill) ==
  [owner |-> t, variant |-> v.name, field |-> f.name, pub |-> f.pub,
   wrap |-> f.wrap, target |-> f.target, fill |-> fill]

StepUnit(t, v) ==
  [owner |-> t, variant |-> v.name, field |-> "", pub |-> TRUE,
   wrap |-> <<>>, target |-> "", fill |-> "Unit"]

InitT == root \in NodeTypes /\ spine = <<>>

\* step into a field of a variant of the type stood at
Enter ==
  /\ Len(spine) < MaxSpine
  /\ \E i \in DOMAIN Variants(Here) :
       \E j \in DOMAIN Variants(Here)[i].fields :
         \E fill \in Fills(Variants(Here)[i].fields[j]) :
           spine' = Append(spine, StepInto(Here, Variants(Here)[i],
                                           Variants(Here)[i].fields[j], fill))
  /\ UNCHANGED <<root, heap, owned, last, varsM, varsL>>

\* the value stood at is a variant without fields
EnterUnit ==
  /\ Len(spine) < MaxSpine
  /\ \E i \in DOMAIN Variants(Here) :
       /\ Variants(Here)[i].fields = <<>>
       /\ spine' = Append(spine, StepUnit(Here, Variants(Here)[i]))
  /\ UNCHANGED <<root, heap, owned, last, varsM, varsL>>

\* the value is done with; another one of the type is begun
Discard ==
  /\ spine /= <<>>
  /\ spine' = <<>>
  /\ UNCHANGED <<root, heap, owned, last, varsM, varsL>>


(***************************************************************************)
(* Claims about the construction and traversal surface (Spec).             *)
(***************************************************************************)
Steps == {spine[i] : i \in DOMAIN spine}

At(s, t, f) == s.owner = t /\ s.field = f

\* a field holds statements: a StatementSequence, or a Vec of Statement
HoldsStatements(s) ==
  \/ s.target = "StatementSequence"
  \/ s.target = "Statement"

\* the next step enters field f of the type stood at and meets fill there
EntersWith(f, fill) ==
  /\ Enter
  /\ spine'[Len(spine')].field = f
  /\ spine'[Len(spine')].fill = fill

\* C1: body optionality is asymmetric.  The body of a FunDeclaration is an
\* Option: at a FunDeclaration both a body that is None and a body that is
\* present can be met.  The body of an InitializerDeclaration is a
\* StatementSequence itself: at an InitializerDeclaration no body that is
\* None can be met, and every initializer met in a tree has its body.
C1_BodyAsymmetry ==
  /\ \A s \in Steps :
       /\ At(s, "FunDeclaration", "body") =>
            s.wrap = <<"Option">> /\ s.target = "StatementSequence"
       /\ At(s, "InitializerDeclaration", "body") =>
            /\ s.wrap = <<>>
            /\ s.target = "StatementSequence"
            /\ s.fill = "Value"
  /\ (Here = "FunDeclaration" /\ Len(spine) < MaxSpine) =>
       ENABLED EntersWith("body", "None") /\ ENABLED EntersWith("body", "Value")
  /\ (Here = "InitializerDeclaration" /\ Len(spine) < MaxSpine) =>
       ~ENABLED EntersWith("body", "None") /\ ENABLED EntersWith("body", "Value")

\* a function whose present body holds an initializer, whose body is present
C1_Witness ==
  /\ \E s \in Steps : At(s, "FunDeclaration", "body") /\ s.fill = "Value"
  /\ \E s \in Steps : At(s, "InitializerDeclaration", "body") /\ s.fill = "Value"

NamedImports == {"Class", "Struct", "Enum", "Protocol", "Function", "Variable"}

\* C5: an ImportDeclaration has exactly one import kind.  Its one field of
\* type ImportSymbol is symbol, always present; the symbol is EntireModule
\* and holds nothing, or is one of the six named kinds and holds exactly one
\* name; nothing else in the declaration names a symbol.
C5_ImportExclusive ==
  \A s \in Steps :
    /\ s.owner = "ImportDeclaration" =>
         \/ At(s, "ImportDeclaration", "module") /\ s.target = "String" /\ s.wrap = <<>>
         \/ /\ At(s, "ImportDeclaration", "symbol")
            /\ s.target = "ImportSymbol"
            /\ s.wrap = <<>>
            /\ s.fill = "Value"
    /\ s.owner = "ImportSymbol" =>
         \/ s.variant = "EntireModule" /\ s.fill = "Unit" /\ s.field = ""
         \/ /\ s.variant \in NamedImports
            /\ s.field = "0"
            /\ s.target = "String"
            /\ s.wrap = <<>>
            /\ s.fill = "Value"

\* an import of an entire module, met inside an ImportDeclaration
C5_Witness ==
  /\ Len(spine) >= 2
  /\ At(spine[Len(spine) - 1], "ImportDeclaration", "symbol")
  /\ spine[Len(spine)].owner = "ImportSymbol"
  /\ spine[Len(spine)].variant = "EntireModule"

\* C6: every path from an Expression to a Statement goes through the body
\* of a Closure: below an Expression, a field that holds statements is
\* Closure.body or lies below a Closure.body step.
C6_StatementOnlyViaClosureBody ==
  \A i \in DOMAIN spine : \A j \in DOMAIN spine :
    (i <= j /\ spine[i].owner = "Expression" /\ HoldsStatements(spine[j])) =>
      \E k \in i..j : At(spine[k], "Closure", "body")

\* a call's trailing closure is an Expression, a Closure, whose body holds a
\* Statement: the path through a non-Closure sub-shape
C6_Witness ==
  /\ Len(spine) = 5
  /\ spine[1].owner = "Expression"
  /\ At(spine[3], "TrailingClosure", "closure")
  /\ At(spine[5], "Closure", "body")
  /\ Here = "Statement"

\* a block body: a field outside StatementSequence itself that holds a list
\* of statements
BlockBody(s) ==
  /\ s.owner /= "StatementSequence"
  /\ \/ s.target = "StatementSequence"
     \/ s.target = "Statement" /\ \E i \in DOMAIN s.wrap : s.wrap[i] = "Vec"

\* C7 as stated: every block body is a StatementSequence.
C7_Original ==
  \A s \in Steps : BlockBody(s) => s.target = "StatementSequence"

PlainBodies == {<<"Closure", "body">>, <<"DoCatchStatement", "catch_body">>}

\* C7, amended: every block body is a StatementSequence except the body of
\* a Closure and the catch_body of a DoCatchStatement, which are plain
\* Vec<Statement>; the bodies of if and else arms, of the loops, of switch
\* cases and default, of guard and of do are StatementSequence values.
C7_BlockBodies ==
  \A s \in Steps :
    /\ BlockBody(s) =>
         IF <<s.owner, s.field>> \in PlainBodies
         THEN s.target = "Statement" /\ s.wrap = <<"Vec">>
         ELSE s.target = "StatementSequence"
    /\ (s.owner \in {"IfStatement", "ForLoopStatement", "WhileLoopStatement",
                     "RepeatWhileLoopStatement", "SwitchStatement", "Case",
                     "GuardStatement", "DoCatchStatement"}
          /\ s.field \in {"body", "else_body", "default_case"}) =>
         s.target = "StatementSequence"

\* an else arm, a StatementSequence, and below it a catch body, which is not
C7_Witness ==
  /\ \E s \in Steps : At(s, "IfStatement", "else_body") /\ s.fill = "Value"
  /\ \E s \in Steps : At(s, "DoCatchStatement", "catch_body") /\ s.fill = "Value"

Requirements == {"PropertyRequirement", "MethodRequirement", "InitializerRequirement"}

\* C8: a ProtocolDeclaration holds only names and the three requirement
\* shapes, no requirement has a body field, and nothing below a
\* ProtocolDeclaration holds statements.
C8_RequirementsHaveNoBody ==
  /\ \A s \in Steps :
       /\ s.owner = "ProtocolDeclaration" => s.target \in Requirements \cup {"String"}
       /\ s.owner \in Requirements => s.field /= "body"
  /\ \A i \in DOMAIN spine : \A j \in DOMAIN spine :
       (i <= j /\ spine[i].owner = "ProtocolDeclaration") =>
         ~HoldsStatements(spine[j]) /\ spine[j].field /= "body"

\* a method requirement of a protocol, entered down to a parameter's default
C8_Witness ==
  /\ Len(spine) >= 3
  /\ At(spine[1], "ProtocolDeclaration", "method_requirements")
  /\ At(spine[2], "MethodRequirement", "parameters")
  /\ At(spine[3], "FunctionParameter", "default_value")

\* a step through a heap indirection: a Box or a Vec
Indirect(s) == \E i \in DOMAIN s.wrap : s.wrap[i] \in {"Box", "Vec"}

Boxed(s) == \E i \in DOMAIN s.wrap : s.wrap[i] = "Box"

\* the types the fields of type t hold
HeldBy(t) ==
  UNION {{Variants(t)[i].fields[j].target :
            j \in DOMAIN Variants(t)[i].fields} : i \in DOMAIN Variants(t)}

RECURSIVE Within(_)
Within(S) ==
  IF UNION {HeldBy(t) : t \in S} \subseteq S THEN S
  ELSE Within(S \cup UNION {HeldBy(t) : t \in S})

\* the types a value of type t can contain, at any depth
Contains == [t \in NodeTypes |-> Within(HeldBy(t))]

\* the steps i..j of the spine lead from a type back to itself
Cycle(i, j) == i <= j /\ spine[j].target = spine[i].owner

\* the steps i..j of the spine are all held inline
InlineRun(i, j) == \A k \in i..j : spine[k].fill /= "Unit" /\ ~Indirect(spine[k])

\* C13 as stated: every cycle of types passes a Box or a Vec, and no field
\* is boxed when the type it holds cannot contain the holder.
C13_Original ==
  /\ \A i \in DOMAIN spine : \A j \in DOMAIN spine :
       Cycle(i, j) => \E k \in i..j : Indirect(spine[k])
  /\ \A s \in Steps : Boxed(s) => s.owner \in Contains[s.target]

\* the boxed fields whose type cannot contain the holder
BoxedApart ==
  {<<"Closure", "struct", "return_type">>, <<"Declaration", "Protocol", "0">>,
   <<"Declaration", "TypeAlias", "0">>, <<"Declaration", "Import", "0">>}

\* C13, amended: every cycle of types passes a Box or a Vec, and no chain of
\* inline fields is as long as the spine may grow, so none closes beyond it;
\* boxing is not confined to cycles: the return_type of a Closure is boxed
\* although a SwiftType cannot contain a Closure, and so are the Protocol,
\* TypeAlias and Import variants of Declaration; no other boxed field holds
\* a type that cannot contain the holder.  The operands of a
\* BinaryExpression are boxed inside a BinaryExpression that is itself boxed.
C13_CyclesIndirect ==
  /\ \A i \in DOMAIN spine : \A j \in DOMAIN spine :
       Cycle(i, j) => \E k \in i..j : Indirect(spine[k])
  /\ ~(Len(spine) = MaxSpine /\ InlineRun(1, Len(spine)))
  /\ \A s \in Steps :
       /\ At(s, "Closure", "return_type") =>
            Boxed(s) /\ s.owner \notin Contains[s.target]
       /\ (Boxed(s) /\ s.owner \notin Contains[s.target]) =>
            <<s.owner, s.variant, s.field>> \in BoxedApart
  /\ \A i \in DOMAIN spine :
       (/\ i < Len(spine)
        /\ spine[i].owner = "Expression"
        /\ spine[i].variant = "BinaryExpression"
        /\ spine[i + 1].field \in {"left", "right"}) =>
         Boxed(spine[i]) /\ Boxed(spine[i + 1])

\* the spine closes a cycle from Expression through a unary operand back to
\* Expression, and one from SwiftType to itself
C13_Witness ==
  \/ /\ Len(spine) >= 2
     /\ spine[1].owner = "Expression"
     /\ At(spine[2], "UnaryExpression", "operand")
     /\ Cycle(1, 2)
  \/ /\ Len(spine) >= 1
     /\ spine[1].owner = "SwiftType"
     /\ spine[1].variant = "Optional"
     /\ Cycle(1, 1)

\* the types of module expression that hold no node but themselves
Leaves == {"Identifier", "InfixIdentifier", "UnaryIdentifier", "Literal"}

ExpressionModule ==
  {"Identifier", "InfixIdentifier", "UnaryIdentifier", "Literal",
   "BinaryExpression", "UnaryExpression", "CallExpression", "TrailingClosure",
   "Argument", "Closure", "ClosureParameter", "AssignmentExpression",
   "SubscriptExpression", "InlineConditionalExpression", "TupleExpression",
   "ArrayExpression", "DictionaryExpression", "MemberAccessExpression",
   "TypeCastingExpression", "PatternMatchExpression", "KeyPathExpression"}

StatementModule ==
  {"BreakStatement", "ContinueStatement", "ReturnStatement", "IfStatement",
   "ForLoopStatement", "WhileLoopStatement", "RepeatWhileLoopStatement",
   "SwitchStatement", "Case", "Pattern", "TypePattern", "LiteralPattern",
   "TuplePattern", "EnumCasePattern", "GuardStatement", "ThrowStatement",
   "DoCatchStatement", "AssignmentStatement"}

DeclarationModule ==
  {"FunDeclaration", "GenericsDeclaration", "TypeParameter",
   "FunctionParameter", "StructDeclaration", "EnumDeclaration", "EnumCase",
   "EnumAssociatedValue", "ClassDeclaration", "ProtocolDeclaration",
   "PropertyRequirement", "MethodRequirement", "InitializerRequirement",
   "ExtensionDeclaration", "TypeAliasDeclaration", "ImportSymbol",
   "ImportDeclaration", "LetDeclaration", "VarDeclaration",
   "VariablePropertyDeclaration", "InitializerDeclaration",
   "DeinitializerDeclaration", "AccessControl"}

\* the place of a type's family in the order primitives, SwiftType,
\* Expression, Statement and Pattern, Declaration
Layer(t) ==
  IF t \in Primitive \cup Leaves THEN 0
  ELSE IF t = "SwiftType" THEN 1
  ELSE IF t \in ExpressionModule \cup {"Expression"} THEN 2
  ELSE IF t \in StatementModule \cup {"Statement", "StatementSequence"} THEN 3
  ELSE IF t \in DeclarationModule \cup {"Declaration"} THEN 4
  ELSE 5

\* a step from a family into a later one
Upward(s) == s.fill /= "Unit" /\ Layer(s.target) > Layer(s.owner)

\* C14 as stated: no definition refers to a later family.
C14_Original == \A s \in Steps : ~Upward(s)


\* the fields that refer to a later family
LaterRefs == {<<"Closure", "struct", "body">>, <<"Statement", "Declaration", "0">>}

\* C14, amended: every type belongs to one of the five families, and a
\* definition refers only to its own and to earlier families except in two
\* places: the body of a Closure holds Statements and the Declaration
\* variant of Statement holds a Declaration, so that Expression, Statement
\* and Declaration refer to each other; the primitives and SwiftType refer
\* to nothing later.
C14_Layers ==
  \A s \in Steps :
    /\ Layer(s.owner) <= 4
    /\ s.fill /= "Unit" => Layer(s.target) <= 4
    /\ Upward(s) => <<s.owner, s.variant, s.field>> \in LaterRefs
    /\ Layer(s.owner) <= 1 => ~Upward(s)

\* a closure whose body holds a statement that is a declaration
C14_Witness ==
  /\ Len(spine) >= 2
  /\ \E i \in 1..(Len(spine) - 1) :
       /\ At(spine[i], "Closure", "body")
       /\ spine[i + 1].owner = "Statement"
       /\ spine[i + 1].variant = "Declaration"
       /\ Upward(spine[i]) /\ Upward(spine[i + 1])

\* the step after step i of the spine
Below(i) == spine[i + 1]

\* C15 as stated: what an entry of trailing_closures holds is the Closure
\* variant of Expression.
C15_Original ==
  \A i \in DOMAIN spine :
    (At(spine[i], "TrailingClosure", "closure") /\ i < Len(spine)) =>
      Below(i).variant = "Closure"

\* the next step enters variant v of the type stood at
EntersVariant(v) ==
  /\ Enter \/ EnterUnit
  /\ spine'[Len(spine')].variant = v

ExpressionVariants == {Expression[i].name : i \in DOMAIN Expression}

\* C15, amended: a CallExpression keeps arguments and trailing_closures as
\* two separate sequences, of Argument and of TrailingClosure; a
\* TrailingClosure is held by trailing_closures only; what it holds is an
\* Expression, of any variant, as is the value of an Argument.
C15_TrailingClosures ==
  /\ \A s \in Steps :
       /\ At(s, "CallExpression", "arguments") =>
            s.target = "Argument" /\ s.wrap = <<"Vec">>
       /\ At(s, "CallExpression", "trailing_closures") =>
            s.target = "TrailingClosure" /\ s.wrap = <<"Vec">>
       /\ s.target = "TrailingClosure" =>
            At(s, "CallExpression", "trailing_closures")
       /\ (At(s, "TrailingClosure", "closure") \/ At(s, "Argument", "value")) =>
            s.target = "Expression" /\ s.wrap = <<>>
  /\ (/\ spine /= <<>>
      /\ Len(spine) < MaxSpine
      /\ At(spine[Len(spine)], "TrailingClosure", "closure")) =>
       \A v \in ExpressionVariants : ENABLED EntersVariant(v)

\* an entry of trailing_closures that holds an expression other than a closure
C15_Witness ==
  \E i \in DOMAIN spine :
    /\ 1 < i /\ i < Len(spine)
    /\ At(spine[i - 1], "CallExpression", "trailing_closures")
    /\ At(spine[i], "TrailingClosure", "closure")
    /\ Below(i).variant = "Literal"

(***************************************************************************)
(* Part 3.  Ownership of built Expression trees.                           *)
(*                                                                         *)
(* heap holds the Expression nodes that are alive: the variant, the        *)
(* operator symbol where the variant has one, and the child Expressions    *)
(* in field order, each held in a Box and so owned by the node.            *)
(* owned is the set of trees a binding of the producer holds.  A child     *)
(* given to a new parent is moved out of its binding; a clone is the       *)
(* derived Clone; a pub field can be assigned by the holder of the tree.   *)
(* last names the operation that made the state.                           *)
(***************************************************************************)
MaxNodes == 4

Ids == 1..MaxNodes

Free == [kind |-> "free", sym |-> "", kids |-> <<>>]

\* the operator symbols a producer writes
Symbols == {"-", "!"}

\* the Expression variants the producer builds here: a leaf, one boxed
\* child, two boxed children
Shapes == {"SelfExpression", "UnaryExpression", "BinaryExpression"}

\* the struct a variant of Expression holds, <<>> for a variant without one
Payload(kind) ==
  LET v == CHOOSE v \in {Expression[k] : k \in DOMAIN Expression} : v.name = kind
  IN  IF v.fields = <<>> THEN <<>> ELSE TypeDef[v.fields[1].target][1].fields

ChildFields(kind) ==
  {k \in DOMAIN Payload(kind) : Payload(kind)[k].target = "Expression"}

\* how many children a node of this variant holds: one for each field
\* that is a Box<Expression>
KidCounts(kind) == {Cardinality(ChildFields(kind))}

HasOperator(kind) ==
  \E k \in DOMAIN Payload(kind) : Payload(kind)[k].name = "operator"

\* the two, for each variant built
Shape == [kind \in Shapes |-> [counts |-> KidCounts(kind), op |-> HasOperator(kind)]]

Live == {n \in Ids : heap[n] /= Free}

Kids(n) == IF n \in Ids THEN heap[n].kids ELSE <<>>

KidSet(n) == {Kids(n)[k] : k \in DOMAIN Kids(n)}

\* the nodes holding c as a child, one entry per field that holds it
Parents(c) ==
  UNION {{<<p, k>> : k \in {j \in DOMAIN Kids(p) : Kids(p)[j] = c}} : p \in Ids}

\* the depth-first walk that the derived Clone, Debug and the drop of a Box
\* make: the node, then each child in field order.  0 marks a walk cut off
\* after MaxNodes levels.
RECURSIVE Visit(_, _), VisitAll(_, _)
Visit(n, fuel) ==
  IF fuel = 0 THEN <<0>> ELSE <<n>> \o VisitAll(Kids(n), fuel - 1)

VisitAll(ks, fuel) ==
  IF ks = <<>> THEN <<>> ELSE Visit(Head(ks), fuel) \o VisitAll(Tail(ks), fuel)

Walk(n) == Visit(n, MaxNodes + 1)

Tree(n) == {Walk(n)[k] : k \in DOMAIN Walk(n)} \ {0}

\* the value of the tree at n in heap h: what the derived Debug prints
RECURSIVE ValueIn(_, _, _)
ValueIn(h, n, fuel) ==
  IF fuel = 0 \/ n \notin Ids THEN <<>>
  ELSE [kind |-> h[n].kind, sym |-> h[n].sym,
        kids |-> [k \in DOMAIN h[n].kids |-> ValueIn(h, h[n].kids[k], fuel - 1)]]

TreeValue(n) == ValueIn(heap, n, MaxNodes + 1)

\* the allocator: the lowest free cells, in order
RECURSIVE Lowest(_, _)
Lowest(S, k) ==
  IF k = 0 \/ S = {} THEN <<>>
  ELSE LET m == CHOOSE m \in S : \A x \in S : m <= x
       IN  <<m>> \o Lowest(S \ {m}, k - 1)

FreeIds == Ids \ Live

\* a slip: a value is handed to a parent by reference, as under a
\* collector, and its binding or earlier parent keeps it
MovableAliased(c) == c \in Live

\* a value can be moved into a parent when a binding holds it
Movable(c) == c \in owned

\* the sequences of distinct movable values of the lengths a variant allows
KidSeqs(kind) ==
  {ks \in UNION {[1..k -> Ids] : k \in Shape[kind].counts} :
     /\ \A a \in DOMAIN ks : Movable(ks[a])
     /\ \A a \in DOMAIN ks : \A b \in DOMAIN ks : a /= b => ks[a] /= ks[b]}

InitO == heap = [n \in Ids |-> Free] /\ owned = {} /\ last = "new"

\* a variant or struct literal: the children are moved into the new node
Build ==
  /\ FreeIds /= {}
  /\ \E kind \in Shapes : \E ks \in KidSeqs(kind) :
       \E sym \in (IF Shape[kind].op THEN Symbols ELSE {""}) :
         LET n == Lowest(FreeIds, 1)[1]
         IN  /\ heap' = [heap EXCEPT ![n] = [kind |-> kind, sym |-> sym, kids |-> ks]]
             /\ owned' = (owned \ {ks[a] : a \in DOMAIN ks}) \cup {n}
  /\ last' = "Build"
  /\ UNCHANGED <<varsT, varsM, varsL>>

Position(seq, x) == CHOOSE k \in DOMAIN seq : seq[k] = x /\ \A j \in 1..(k - 1) : seq[j] /= x

\* a slip: a copy of the top node alone, sharing the children (the Clone of
\* an Rc field)
ShallowCloneOf(n, fresh) ==
  [m \in Ids |-> IF fresh /= <<>> /\ m = fresh[1] THEN heap[n] ELSE heap[m]]

\* the derived Clone of the tree at n: a fresh node for every node walked,
\* holding the copies of its children
CloneOf(n, fresh) ==
  [m \in Ids |->
     IF \E k \in DOMAIN fresh : fresh[k] = m
     THEN LET old == heap[Walk(n)[Position(fresh, m)]]
          IN  [old EXCEPT !.kids = [a \in DOMAIN old.kids |->
                                      fresh[Position(Walk(n), old.kids[a])]]]
     ELSE heap[m]]

\* clone() of a tree or of a subtree reached by reference
Clone ==
  \E n \in Live :
    /\ Len(Walk(n)) <= Cardinality(FreeIds)
    /\ LET fresh == Lowest(FreeIds, Len(Walk(n)))
       IN  /\ heap' = CloneOf(n, fresh)
           /\ owned' = owned \cup {fresh[1]}
    /\ last' = "Clone"
    /\ UNCHANGED <<varsT, varsM, varsL>>

\* a binding goes out of scope: the tree is dropped as a unit
Drop ==
  \E r \in owned :
    /\ heap' = [m \in Ids |-> IF m \in Tree(r) THEN Free ELSE heap[m]]
    /\ owned' = owned \ {r}
    /\ last' = "Drop"
    /\ UNCHANGED <<varsT, varsM, varsL>>

\* a destructuring move: the node is consumed, its children are bound
TakeApart ==
  \E r \in owned :
    /\ Kids(r) /= <<>>
    /\ heap' = [heap EXCEPT ![r] = Free]
    /\ owned' = (owned \ {r}) \cup KidSet(r)
    /\ last' = "TakeApart"
    /\ UNCHANGED <<varsT, varsM, varsL>>

\* a slip: no borrow is checked, a tree can be moved into its own node
AssignableUnchecked(n, c) == Movable(c)

\* the borrow of n while c is moved: c is not the tree that holds n
Assignable(n, c) == Movable(c) /\ n \notin Tree(c)

\* n.field = Box::new(c): the old child is dropped, c is moved in
AssignChild ==
  \E n \in Live : \E k \in DOMAIN Kids(n) : \E c \in Ids :
    /\ Assignable(n, c)
    /\ heap' = [m \in Ids |->
                  IF m = n THEN [heap[n] EXCEPT !.kids[k] = c]
                  ELSE IF m \in Tree(Kids(n)[k]) THEN Free
                  ELSE heap[m]]
    /\ owned' = owned \ {c}
    /\ last' = "AssignChild"
    /\ UNCHANGED <<varsT, varsM, varsL>>

\* n.operator.symbol = s
AssignSymbol ==
  \E n \in Live : \E s \in Symbols :
    /\ Shape[heap[n].kind].op
    /\ s /= heap[n].sym
    /\ heap' = [heap EXCEPT ![n].sym = s]
    /\ last' = "AssignSymbol"
    /\ UNCHANGED <<owned, root, spine, varsM, varsL>>

(***************************************************************************)
(* Claims about ownership (SpecOwn).                                       *)
(***************************************************************************)
\* the nodes reached from n by child fields in at most k steps
RECURSIVE Reach(_, _)
Reach(S, k) ==
  IF k = 0 THEN S ELSE Reach(S \cup UNION {KidSet(m) : m \in S}, k - 1)

Occurrences(seq, x) == Cardinality({k \in DOMAIN seq : seq[k] = x})

\* C3: in every tree built, no node is reached from itself by child fields,
\* and the depth-first walk from the root of a tree ends (it is not cut
\* off) having visited every node of the tree exactly once.
C3_AcyclicWalk ==
  /\ \A n \in Live : n \notin Reach(KidSet(n), MaxNodes)
  /\ \A r \in owned :
       /\ Occurrences(Walk(r), 0) = 0
       /\ \A m \in Reach({r}, MaxNodes) : Occurrences(Walk(r), m) = 1
       /\ Len(Walk(r)) = Cardinality(Reach({r}, MaxNodes))

\* a chain of nested unary expressions as deep as the heap allows
C3_Witness ==
  \E r \in owned :
    /\ Len(Walk(r)) = MaxNodes
    /\ \A k \in 1..(MaxNodes - 1) :
         /\ heap[Walk(r)[k]].kind = "UnaryExpression"
         /\ Kids(Walk(r)[k]) = <<Walk(r)[k + 1]>>

\* every node alive is held once: by a binding, or by one field of one parent
SingleOwner ==
  \A c \in Live :
    IF c \in owned THEN Parents(c) = {} ELSE Cardinality(Parents(c)) = 1

ParentsIn(h, c) ==
  UNION {{<<p, k>> : k \in {j \in DOMAIN h[p].kids : h[p].kids[j] = c}} : p \in Ids}

\* a node comes under a parent by being moved out of a binding, or as a
\* fresh node
MovedOrFresh ==
  \A c \in Ids :
    (ParentsIn(heap', c) \ ParentsIn(heap, c) /= {}) =>
      \/ c \in owned /\ c \notin owned' /\ heap'[c] = heap[c]
      \/ heap[c] = Free

\* C4: after any sequence of constructions, moves, clones and assignments
\* every node has at most one owner, and a node comes under a parent only
\* by a move out of its binding or as a fresh node of a clone: a subtree is
\* reused under a second parent only as a copy, every node of it fresh.
C4_SingleOwner == []SingleOwner /\ [][MovedOrFresh]_vars

\* a tree was cloned: the clone is a second parent, and the child it holds
\* is a copy of the child of the first, not that child
C4_Witness ==
  /\ last = "Clone"
  /\ \E p \in owned : \E q \in owned :
       /\ p /= q
       /\ Kids(p) /= <<>>
       /\ TreeValue(p) = TreeValue(q)
       /\ Kids(p)[1] /= Kids(q)[1]
       /\ Tree(p) \cap Tree(q) = {}

\* the nodes alive before and after a step whose fields the step changed
Changed == {n \in Ids : heap[n] /= Free /\ heap'[n] /= Free /\ heap'[n] /= heap[n]}

\* C10 as stated: no operation changes a field or a child of a node built.
C10_Original == [][Changed = {}]_vars

\* C10, amended: the model defines no mutating method, and a node built
\* changes only by an assignment to one of its pub fields by the holder of
\* its tree.  Building, moving, cloning, taking apart and dropping change
\* no node that stays alive; an assignment changes one node, which lies in
\* one tree, and every tree that does not hold it keeps its value.
C10_OnlyAssignmentChanges ==
  [][ /\ Changed /= {} => (AssignChild \/ AssignSymbol)
      /\ Cardinality(Changed) <= 1
      /\ \A n \in Changed : Cardinality({r \in owned : n \in Tree(r)}) = 1
      /\ \A r \in owned :
           (r \in owned' /\ Changed \cap Tree(r) = {}) =>
             ValueIn(heap', r, MaxNodes + 1) = TreeValue(r) ]_vars

\* a tree whose operator was assigned beside a tree of the value it had
C10_Witness ==
  /\ last = "AssignSymbol"
  /\ \E r \in owned : \E q \in owned :
       /\ r /= q
       /\ heap[r].kind = heap[q].kind
       /\ heap[r].sym /= heap[q].sym
       /\ heap[r].sym /= ""
       /\ Kids(r) /= <<>>

(***************************************************************************)
(* Part 4.  Filling the member sequences of a declaration (SpecMembers).   *)
(*                                                                         *)
(* StructDeclaration and ClassDeclaration hold their members in one Vec    *)
(* per member type.  A producer that meets the members in source order     *)
(* pushes each onto the Vec whose element type is the member's type.       *)
(* source is the member list as written, taken the number of members       *)
(* pushed so far, decl the sequences of the declaration, root its type.    *)
(***************************************************************************)
MaxMembers == 4

Names == {"x", "y"}

\* the declarations that split their members into one sequence per type
Holders == {"StructDeclaration", "ClassDeclaration"}

\* the fields of declaration d that hold a sequence of member nodes
MemberFields(d) ==
  {f \in {Variants(d)[1].fields[j] : j \in DOMAIN Variants(d)[1].fields} :
     f.wrap = <<"Vec">> /\ f.target \in NodeTypes}

MemberTypes(d) == {f.target : f \in MemberFields(d)}

\* the field of d whose elements have type t
FieldOf(d, t) == (CHOOSE f \in MemberFields(d) : f.target = t).name

NoMembers(d) == [n \in {f.name : f \in MemberFields(d)} |-> <<>>]

Member(d) == [type : MemberTypes(d), name : Names]

MemberLists(d) == UNION {[1..n -> Member(d)] : n \in 0..MaxMembers}

\* a slip: the member is put in front of its sequence
PlaceFront(d, dv, m) == [dv EXCEPT ![FieldOf(d, m.type)] = <<m>> \o @]

\* Vec::push of member m onto its sequence in the declaration value dv
Place(d, dv, m) == [dv EXCEPT ![FieldOf(d, m.type)] = Append(@, m)]

IdleM == source = <<>> /\ taken = 0 /\ decl = <<>>

InitM ==
  /\ root \in Holders
  /\ spine = <<>>
  /\ source \in MemberLists(root)
  /\ taken = 0
  /\ decl = NoMembers(root)

\* the next member of the source is pushed onto its sequence
Push ==
  /\ taken < Len(source)
  /\ taken' = taken + 1
  /\ decl' = Place(root, decl, source[taken + 1])
  /\ UNCHANGED <<source, varsT, varsO, varsL>>


(***************************************************************************)
(* Claims about the member sequences (SpecMembers).                        *)
(***************************************************************************)
\* the members pushed so far, in source order
Taken == SubSeq(source, 1, taken)

\* the members of type t in the list ms, in the order of ms
OfType(ms, t) ==
  LET Is(m) == m.type = t
  IN  SelectSeq(ms, Is)

\* the declaration value a whole member list maps to
RECURSIVE Declare(_, _)
Declare(d, ms) ==
  IF ms = <<>> THEN NoMembers(d)
  ELSE Place(d, Declare(d, SubSeq(ms, 1, Len(ms) - 1)), ms[Len(ms)])

\* the list ms read in the order p
Reordered(ms, p) == [k \in DOMAIN ms |-> ms[p[k]]]

\* the lists that differ from ms only in how the member types interleave
Interleavings(d, ms) ==
  {o \in {Reordered(ms, p) : p \in Permutations(DOMAIN ms)} :
     \A t \in MemberTypes(d) : OfType(o, t) = OfType(ms, t)}

Sites == {"inside", "outside"}

NoLit == [type |-> "", variant |-> "", fills |-> <<>>]

\* field f can be named by code at site s
Visible(f, s) == f.pub \/ s = "inside"

\* a field that is neither an Option nor a Vec needs a value of its type
Mandatory(f) == Fills(f) = {"Value"}

\* the types code at site s can write a literal of from values of types in S
Writable(S, s) ==
  {t \in NodeTypes :
     \E i \in DOMAIN TypeDef[t] :
       \A j \in DOMAIN TypeDef[t][i].fields :
         /\ Visible(TypeDef[t][i].fields[j], s)
         /\ Mandatory(TypeDef[t][i].fields[j]) =>
              TypeDef[t][i].fields[j].target \in S}

RECURSIVE Close(_, _)
Close(S, s) ==
  IF Writable(S, s) \subseteq S THEN S ELSE Close(S \cup Writable(S, s), s)

\* the types code at each site can come by a value of
Obtainable == [s \in Sites |-> Close(Primitive, s)]

\* what code at site s can fill field f with
FillsAt(f, s) ==
  {x \in Fills(f) : x = "Value" => f.target \in Obtainable[s]}

\* the fillings of the fields of variant v that code at site s can write
LiteralsOf(v, s) ==
  {fs \in [DOMAIN v.fields -> {"None", "Empty", "Value"}] :
     \A j \in DOMAIN v.fields : fs[j] \in FillsAt(v.fields[j], s)}

\* the fields of the variant literal l is of
LitFields(l) ==
  IF l.type \in NodeTypes
  THEN (CHOOSE v \in {TypeDef[l.type][i] : i \in DOMAIN TypeDef[l.type]} :
          v.name = l.variant).fields
  ELSE <<>>

IdleL == site = "outside" /\ lit = NoLit /\ seen = 0

InitL == site \in Sites /\ lit = NoLit /\ seen = 0

\* a struct or variant literal is written: every field is named and filled
WriteLiteral ==
  /\ lit = NoLit
  /\ \E t \in NodeTypes :
       \E i \in DOMAIN TypeDef[t] :
         /\ \A j \in DOMAIN TypeDef[t][i].fields :
              Visible(TypeDef[t][i].fields[j], site)
         /\ \E fs \in LiteralsOf(TypeDef[t][i], site) :
              lit' = [type |-> t, variant |-> TypeDef[t][i].name, fills |-> fs]
  /\ seen' = 0
  /\ UNCHANGED <<site, varsT, varsO, varsM>>

\* a field of the value held is read
ReadField ==
  /\ lit /= NoLit
  /\ \E j \in DOMAIN LitFields(lit) :
       /\ Visible(LitFields(lit)[j], site)
       /\ seen' = j
  /\ UNCHANGED <<site, lit, varsT, varsO, varsM>>

\* the value held is moved across the boundary of the defining module
Hand ==
  /\ lit /= NoLit
  /\ site' \in Sites \ {site}
  /\ seen' = 0
  /\ UNCHANGED <<lit, varsT, varsO, varsM>>

\* the value held is dropped
DropLit ==
  /\ lit /= NoLit
  /\ lit' = NoLit
  /\ seen' = 0
  /\ UNCHANGED <<site, varsT, varsO, varsM>>


(***************************************************************************)
(* Claims about literals (SpecLit).                                        *)
(***************************************************************************)
\* what the field named n of literal l was filled with
FillOf(l, n) ==
  IF \E j \in DOMAIN LitFields(l) : LitFields(l)[j].name = n
  THEN l.fills[CHOOSE j \in DOMAIN LitFields(l) : LitFields(l)[j].name = n]
  ELSE "Absent"

\* an enum case with associated values and a raw value at once
BothPresent(l) ==
  /\ l.type = "EnumCase"
  /\ FillOf(l, "associated_values") = "Value"
  /\ FillOf(l, "raw_value") = "Value"

WritesBoth == WriteLiteral /\ BothPresent(lit')

\* C12: an EnumCase with a non-empty associated_values and a present
\* raw_value at once can be written wherever a literal can be written, and
\* what is held after any step is a value of a node type, with each field
\* filled as its wrappers allow: writing has no error outcome.
C12_BothConstructible ==
  /\ lit = NoLit => ENABLED WritesBoth
  /\ lit /= NoLit =>
       /\ lit.type \in NodeTypes
       /\ DOMAIN lit.fills = DOMAIN LitFields(lit)
       /\ \A j \in DOMAIN lit.fills : lit.fills[j] \in Fills(LitFields(lit)[j])

\* such an enum case was written by code outside the module
C12_Witness == site = "outside" /\ BothPresent(lit)

Writes(t) == WriteLiteral /\ lit'.type = t

Reads(j) == ReadField /\ seen' = j

\* C16: code outside the defining module can write a literal of every node
\* type and read every field of every value it holds; in particular it can
\* write a StatementSequence from a list of Statements and enumerate them.
C16_PublicSurface ==
  site = "outside" =>
    /\ lit = NoLit => \A t \in NodeTypes : ENABLED Writes(t)
    /\ lit /= NoLit => \A j \in DOMAIN LitFields(lit) : ENABLED Reads(j)


Init == InitT /\ InitO /\ IdleM /\ IdleL

Next == Enter \/ EnterUnit \/ Discard

Spec == Init /\ [][Next]_vars

InitOwn == root = "Expression" /\ spine = <<>> /\ InitO /\ IdleM /\ IdleL

NextOwn == Build \/ Clone \/ Drop \/ TakeApart \/ AssignChild \/ AssignSymbol

SpecOwn == InitOwn /\ [][NextOwn]_vars

InitMembers == InitM /\ InitO /\ IdleL

NextMembers == Push

SpecMembers == InitMembers /\ [][NextMembers]_vars

InitLit == root = "Expression" /\ spine = <<>> /\ InitO /\ IdleM /\ InitL

NextLit == WriteLiteral \/ ReadField \/ Hand \/ DropLit

SpecLit == InitLit /\ [][NextLit]_vars

====
